---- MODULE Spec2Model ----
(***************************************************************************)
(* A model of the PDF text cleaning pipeline of clean_text.py.             *)
(*                                                                         *)
(* A text is a sequence of characters, a character is a one-symbol string. *)
(* The regular expressions of the source are modelled by what they match:  *)
(* for every pattern an operator gives, for each start offset, the offset  *)
(* at which the match starting there ends, and ReSub deletes or replaces   *)
(* the leftmost non-overlapping matches as re.sub does.                    *)
(*                                                                         *)
(* Offsets are 1-based here (TLA+ sequences) and 0-based in the source.    *)
(***************************************************************************)
EXTENDS Integers, Sequences, FiniteSets, TLC

VARIABLES
    \* remove_numeric_blocks (src/clean_text.py 46-61)
    nb_text,        \* parameter text
    nb_lines,       \* lines = text.split('\n')
    nb_i,           \* number of lines the for loop has consumed
    nb_cleaned,     \* cleaned
    numeric_run,    \* numeric_run
    nb_kept,        \* history: the indices of the lines appended to cleaned
    nb_pc,          \* "split" | "loop" | "done"
    nb_result,      \* the returned string
    \* the duplicate-line loop of clean_text (116-124)
    dd_text,        \* text entering the step
    dd_lines,       \* lines = text.splitlines()
    dd_i,           \* number of lines the for loop has consumed
    deduped,        \* deduped
    prev,           \* prev
    dd_kept,        \* history: the indices of the lines appended to deduped
    dd_pc,          \* "split" | "loop" | "done"
    dd_result,      \* text after the join of line 124
    \* is_image_based_pdf (8-14)
    cl_doc,         \* the page texts doc[i].get_text() of the opened document
    check_pages,    \* parameter check_pages
    cl_i,           \* loop variable i (pages inspected so far)
    cl_seen,        \* history: the page numbers whose text was read
    cl_pc,          \* "loop" | "done"
    cl_result,      \* the returned boolean
    \* find_main_start (19-31)
    ms_text,        \* parameter text
    ms_pc,          \* "call" | "done"
    ms_result,      \* the returned string
    \* extract_clean_text_from_pdf / ocr_pdf / clean_text (34-43, 89-143)
    pages,          \* the page texts of the document, in page order
    path,           \* "text" (extract_clean_text_from_pdf) | "ocr" (ocr_pdf)
    text_chunks,    \* text_chunks of extract_clean_text_from_pdf
    pg,             \* number of pages the page loop has consumed
    raw,            \* the text handed to clean_text
    text,           \* the variable text of clean_text
    mark,           \* history: for each character of text, the page number of
                    \* the ocr_pdf marker it was injected with (0: none)
    pc,             \* the statement of clean_text about to run
    pass,           \* 0: clean_text; 1, 2: first and second run of the filters
    first,          \* the result of the first run of the filters
    \* the __main__ batch loop (172-180)
    listing,        \* os.listdir("papers/"), in enumeration order
    b_i,            \* number of directory entries the loop has consumed
    b_pc,           \* "next" | "classify" | "ocr" | "text" | "done" | "crashed"
    b_image,        \* result of is_image_based_pdf for the current file
    written         \* the set of <basename>_cleaned.txt files written

numVars   == <<nb_text, nb_lines, nb_i, nb_cleaned, numeric_run, nb_kept, nb_pc, nb_result>>
dedupVars == <<dd_text, dd_lines, dd_i, deduped, prev, dd_kept, dd_pc, dd_result>>
classVars == <<cl_doc, check_pages, cl_i, cl_seen, cl_pc, cl_result>>
mainVars  == <<ms_text, ms_pc, ms_result>>
cleanVars == <<pages, path, text_chunks, pg, raw, text, mark, pc, pass, first>>
batchVars == <<listing, b_i, b_pc, b_image, written>>
vars      == <<numVars, dedupVars, classVars, mainVars, cleanVars, batchVars>>

\* what a step of one function leaves alone
notNumeric == <<dedupVars, classVars, mainVars, cleanVars, batchVars>>
notDedup   == <<numVars, classVars, mainVars, cleanVars, batchVars>>
notClass   == <<numVars, dedupVars, mainVars, cleanVars, batchVars>>
notMain    == <<numVars, dedupVars, classVars, cleanVars, batchVars>>
notClean   == <<numVars, dedupVars, classVars, mainVars, batchVars>>
notBatch   == <<numVars, dedupVars, classVars, mainVars, cleanVars>>

-----------------------------------------------------------------------------
(* Characters.  The classes are those of Python's re on str, restricted to *)
(* the alphabet below (ASCII letters, digits, punctuation, space, tab,     *)
(* newline, and the two non-ASCII characters the patterns name).           *)

PlusMinus == "<+->"         \* U+00B1, named in the patterns of lines 51-52
EmDash    == "<em-dash>"    \* U+2014, named in the pattern of line 85
NL        == "\n"
TAB       == "\t"

LowerSeq == <<"a","b","c","d","e","f","g","h","i","j","k","l","m",
              "n","o","p","q","r","s","t","u","v","w","x","y","z">>
UpperSeq == <<"A","B","C","D","E","F","G","H","I","J","K","L","M",
              "N","O","P","Q","R","S","T","U","V","W","X","Y","Z">>
Lower == {LowerSeq[k] : k \in 1..26}
Upper == {UpperSeq[k] : k \in 1..26}
Digit == {"0","1","2","3","4","5","6","7","8","9"}

\* \s
IsSpace(c) == c \in {" ", TAB, NL}
\* \w
IsWord(c) == c \in Lower \/ c \in Upper \/ c \in Digit \/ c = "_"
\* str.lower() of one character, as re.IGNORECASE compares
LowerMap == [c \in Upper |-> LowerSeq[CHOOSE k \in 1..26 : UpperSeq[k] = c]]
ToLower(c) == IF c \in Upper THEN LowerMap[c] ELSE c

Max(a, b) == IF a >= b THEN a ELSE b
Min(a, b) == IF a <= b THEN a ELSE b

\* \b at offset i of t: between t[i-1] and t[i], exactly one is a word character
WordBoundary(t, i) ==
    LET before == i > 1 /\ i - 1 <= Len(t) /\ IsWord(t[i - 1])
        after  == i >= 1 /\ i <= Len(t) /\ IsWord(t[i])
    IN  before # after

\* the literal lit occurs in t at offset i (ic: under re.IGNORECASE)
LitAt(t, i, lit, ic) ==
    /\ i >= 1
    /\ i + Len(lit) - 1 <= Len(t)
    /\ \A k \in 1..Len(lit) :
          IF ic THEN ToLower(t[i + k - 1]) = ToLower(lit[k])
                ELSE t[i + k - 1] = lit[k]

\* the least element of a set of integers, d for the empty set
LeastOr(S, d) == IF S = {} THEN d ELSE CHOOSE i \in S : \A j \in S : i <= j

\* the first offset >= i of t whose character is not in the class, Len(t)+1 if none
RunEnd(t, i, class) ==
    LeastOr({j \in i..Len(t) : t[j] \notin class}, Max(i, Len(t) + 1))

SpaceChars == {" ", TAB, NL}

\* the offset of the first newline at or after i, Len(t)+1 if none
LineEnd(t, i) == LeastOr({j \in i..Len(t) : t[j] = NL}, Max(i, Len(t) + 1))

\* the first offset >= i of t holding a whitespace character, Len(t)+1 if none
TokenEnd(t, i) == LeastOr({j \in i..Len(t) : IsSpace(t[j])}, Max(i, Len(t) + 1))

-----------------------------------------------------------------------------
(* str.split('\n'), str.splitlines(), str.join, str.strip                  *)

\* seq cut where text.split('\n') cuts t (seq and t have the same length):
\* always at least one line
RECURSIVE SplitBy(_, _)
SplitBy(seq, t) ==
    LET e == LineEnd(t, 1)
    IN  IF e > Len(t) THEN <<seq>>
        ELSE <<SubSeq(seq, 1, e - 1)>>
             \o SplitBy(SubSeq(seq, e + 1, Len(seq)), SubSeq(t, e + 1, Len(t)))

\* text.split('\n')
SplitNL(t) == SplitBy(t, t)

\* text.splitlines(): no line for the empty text, none after a final newline
\* (the alphabet has no line boundary other than the newline)
SplitLinesBy(seq, t) ==
    LET ls == SplitBy(seq, t)
    IN  IF Len(ls[Len(ls)]) = 0 THEN SubSeq(ls, 1, Len(ls) - 1) ELSE ls

SplitLines(t) == SplitLinesBy(t, t)

\* the elements of lines at the line numbers of kept, in that order
PickLines(lines, kept) == [k \in 1..Len(kept) |-> lines[kept[k]]]

\* sep.join(parts)
RECURSIVE Join(_, _)
Join(parts, sep) ==
    IF Len(parts) = 0 THEN <<>>
    ELSE IF Len(parts) = 1 THEN parts[1]
    ELSE parts[1] \o sep \o Join(Tail(parts), sep)

\* str.strip()
Strip(t) ==
    LET n  == Len(t)
        nb == {k \in 1..n : ~IsSpace(t[k])}
    IN  IF nb = {} THEN <<>>
        ELSE SubSeq(t, CHOOSE k \in nb : \A j \in nb : k <= j,
                       CHOOSE k \in nb : \A j \in nb : k >= j)

-----------------------------------------------------------------------------
(* remove_numeric_blocks (46-61)                                           *)

\* [\d.<+->%] of line 51
RatioChars    == Digit \cup {".", "%", PlusMinus}
\* [\d.,] and [\d.,%<+->] of line 52
FirstTokChars == Digit \cup {".", ","}
RestTokChars  == Digit \cup {".", ",", "%", PlusMinus}

\* digit_ratio > 0.5, digit_ratio = count / (len(line) + 1e-6): with integers
\* count and len this is 2 * count > len (an empty line has ratio 0)
DigitRatioHigh(line) ==
    2 * Cardinality({k \in 1..Len(line) : line[k] \in RatioChars}) > Len(line)

\* (\s+[\d.,%<+->]+)*\s*$ from offset i, i being just after a token
RECURSIVE NumericRest(_, _)
NumericRest(line, i) ==
    LET ws == RunEnd(line, i, SpaceChars)
    IN  IF ws > Len(line) THEN TRUE
        ELSE IF ws = i THEN FALSE
        ELSE LET tok == RunEnd(line, ws, RestTokChars)
             IN  tok > ws /\ NumericRest(line, tok)

\* re.match(r'^\s*[\d.,]+(\s+[\d.,%<+->]+)*\s*$', line)
NumericPattern(line) ==
    LET s  == RunEnd(line, 1, SpaceChars)
        e1 == RunEnd(line, s, FirstTokChars)
    IN  e1 > s /\ NumericRest(line, e1)

\* the condition of line 52
IsNumericLike(line) == DigitRatioHigh(line) \/ NumericPattern(line)

\* lines 52-55: the counter after reading a line
NextNumericRun(run, line) == IF IsNumericLike(line) THEN run + 1 ELSE 0

\* lines 57-60 with the lines of runs shorter than 3 appended
NumericAppendsShortRuns(run) == run < 3

\* lines 57-60: whether the line is appended, given the counter after it
NumericAppends(run) == IF run >= 3 THEN FALSE ELSE run = 0

\* the for loop of lines 50-60 from line i+1 on: the numbers of the lines
\* appended to cleaned
RECURSIVE NumericLoop(_, _, _, _)
NumericLoop(lines, i, run, kept) ==
    IF i >= Len(lines) THEN kept
    ELSE LET r == NextNumericRun(run, lines[i + 1])
         IN  NumericLoop(lines, i + 1, r,
                 IF NumericAppends(r) THEN Append(kept, i + 1) ELSE kept)

NumericKept(lines) == NumericLoop(lines, 0, 0, <<>>)

\* all sequences over S of length at most n
SeqsUpTo(S, n) == UNION {[1..k -> S] : k \in 0..n}

MaxNumLines == 5
\* an empty line, a line at ratio exactly 0.5, a numeric-like line by ratio
\* only, and a numeric-like line by the pattern only
NumericLineSamples ==
    { <<>>, <<"a", "1">>, <<"5", "%">>, <<" ", "7", " ">> }
NumericTexts == {Join(ls, <<NL>>) : ls \in SeqsUpTo(NumericLineSamples, MaxNumLines)}

IdleNumeric ==
    /\ nb_text = <<>> /\ nb_lines = <<>> /\ nb_i = 0 /\ nb_cleaned = <<>>
    /\ numeric_run = 0 /\ nb_kept = <<>> /\ nb_pc = "idle" /\ nb_result = <<>>

\* lines 47-49
NbSplit ==
    /\ nb_pc = "split"
    /\ nb_lines' = SplitNL(nb_text)
    /\ nb_cleaned' = <<>>
    /\ numeric_run' = 0
    /\ nb_i' = 0
    /\ nb_kept' = <<>>
    /\ nb_pc' = "loop"
    /\ UNCHANGED <<nb_text, nb_result>>
    /\ UNCHANGED notNumeric

\* one iteration of the for loop, lines 50-60
NbLine ==
    /\ nb_pc = "loop"
    /\ nb_i < Len(nb_lines)
    /\ LET line == nb_lines[nb_i + 1]
           r    == NextNumericRun(numeric_run, line)
       IN  /\ numeric_run' = r
           /\ IF NumericAppends(r)
              THEN /\ nb_cleaned' = Append(nb_cleaned, line)
                   /\ nb_kept' = Append(nb_kept, nb_i + 1)
              ELSE UNCHANGED <<nb_cleaned, nb_kept>>
    /\ nb_i' = nb_i + 1
    /\ UNCHANGED <<nb_text, nb_lines, nb_pc, nb_result>>
    /\ UNCHANGED notNumeric

\* line 61
NbReturn ==
    /\ nb_pc = "loop"
    /\ nb_i = Len(nb_lines)
    /\ nb_result' = Join(nb_cleaned, <<NL>>)
    /\ nb_pc' = "done"
    /\ UNCHANGED <<nb_text, nb_lines, nb_i, nb_cleaned, numeric_run, nb_kept>>
    /\ UNCHANGED notNumeric

-----------------------------------------------------------------------------
(* The duplicate-line loop of clean_text (116-124)                         *)

\* line 121 without the two strip() calls
DedupKeepsExact(line, p) == line # p

\* line 121: the line is appended iff its trimmed content differs from prev's
DedupKeeps(line, p) == Strip(line) # Strip(p)

\* the for loop of lines 120-123 from line i+1 on: the numbers of the lines
\* appended to deduped
RECURSIVE DedupLoop(_, _, _, _)
DedupLoop(lines, i, p, kept) ==
    IF i >= Len(lines) THEN kept
    ELSE DedupLoop(lines, i + 1, lines[i + 1],
             IF DedupKeeps(lines[i + 1], p) THEN Append(kept, i + 1) ELSE kept)

DedupKept(lines) == DedupLoop(lines, 0, <<>>, <<>>)

MaxDedupLines == 4
DedupLineSamples == { <<>>, <<" ">>, <<"a">>, <<"a", " ">>, <<"b">> }
DedupTexts == {Join(ls, <<NL>>) : ls \in SeqsUpTo(DedupLineSamples, MaxDedupLines)}

IdleDedup ==
    /\ dd_text = <<>> /\ dd_lines = <<>> /\ dd_i = 0 /\ deduped = <<>>
    /\ prev = <<>> /\ dd_kept = <<>> /\ dd_pc = "idle" /\ dd_result = <<>>

\* lines 117-119
DdSplit ==
    /\ dd_pc = "split"
    /\ dd_lines' = SplitLines(dd_text)
    /\ deduped' = <<>>
    /\ prev' = <<>>
    /\ dd_i' = 0
    /\ dd_kept' = <<>>
    /\ dd_pc' = "loop"
    /\ UNCHANGED <<dd_text, dd_result>>
    /\ UNCHANGED notDedup

\* one iteration of the for loop, lines 120-123
DdLine ==
    /\ dd_pc = "loop"
    /\ dd_i < Len(dd_lines)
    /\ LET line == dd_lines[dd_i + 1]
       IN  /\ IF DedupKeeps(line, prev)
              THEN /\ deduped' = Append(deduped, line)
                   /\ dd_kept' = Append(dd_kept, dd_i + 1)
              ELSE UNCHANGED <<deduped, dd_kept>>
           /\ prev' = line
    /\ dd_i' = dd_i + 1
    /\ UNCHANGED <<dd_text, dd_lines, dd_pc, dd_result>>
    /\ UNCHANGED notDedup

\* line 124
DdJoin ==
    /\ dd_pc = "loop"
    /\ dd_i = Len(dd_lines)
    /\ dd_result' = Join(deduped, <<NL>>)
    /\ dd_pc' = "done"
    /\ UNCHANGED <<dd_text, dd_lines, dd_i, deduped, prev, dd_kept>>
    /\ UNCHANGED notDedup

-----------------------------------------------------------------------------
(* is_image_based_pdf (8-14)                                               *)

\* range(len(doc)): check_pages ignored
PagesToCheckAll(doc, k) == Len(doc)

\* line 10: range(min(len(doc), check_pages)) has this many elements
PagesToCheck(doc, k) == Max(0, Min(Len(doc), k))

\* lines 10-14 from page i+1 on
RECURSIVE ImageLoop(_, _, _)
ImageLoop(doc, k, i) ==
    IF i >= PagesToCheck(doc, k) THEN TRUE
    ELSE IF Strip(doc[i + 1]) # <<>> THEN FALSE
    ELSE ImageLoop(doc, k, i + 1)

is_image_based_pdf(doc, k) == ImageLoop(doc, k, 0)

MaxDocPages   == 4
MaxCheckPages == 4
ClassPageSamples == { <<>>, <<" ", NL>>, <<TAB>>, <<" ", "a">> }
ClassDocs == SeqsUpTo(ClassPageSamples, MaxDocPages)

IdleClass ==
    /\ cl_doc = <<>> /\ check_pages = 0 /\ cl_i = 0 /\ cl_seen = {}
    /\ cl_pc = "idle" /\ cl_result = FALSE

\* lines 11-13: page i is read; a page with text ends the call with False
ClPage ==
    /\ cl_pc = "loop"
    /\ cl_i < PagesToCheck(cl_doc, check_pages)
    /\ cl_seen' = cl_seen \cup {cl_i + 1}
    /\ IF Strip(cl_doc[cl_i + 1]) # <<>>
       THEN /\ cl_result' = FALSE
            /\ cl_pc' = "done"
            /\ UNCHANGED cl_i
       ELSE /\ cl_i' = cl_i + 1
            /\ UNCHANGED <<cl_result, cl_pc>>
    /\ UNCHANGED <<cl_doc, check_pages>>
    /\ UNCHANGED notClass

\* line 14
ClReturnTrue ==
    /\ cl_pc = "loop"
    /\ cl_i >= PagesToCheck(cl_doc, check_pages)
    /\ cl_result' = TRUE
    /\ cl_pc' = "done"
    /\ UNCHANGED <<cl_doc, check_pages, cl_i, cl_seen>>
    /\ UNCHANGED notClass

-----------------------------------------------------------------------------
(* find_main_start (19-31)                                                 *)

abstract     == <<"a","b","s","t","r","a","c","t">>
introduction == <<"i","n","t","r","o","d","u","c","t","i","o","n">>

\* the least element of a non-empty set of integers, 0 for the empty set
LeastOr0(S) == LeastOr(S, 0)

\* \babstract\b (IGNORECASE) matches at offset i
AbstractAt(t, i) ==
    /\ LitAt(t, i, abstract, TRUE)
    /\ WordBoundary(t, i)
    /\ WordBoundary(t, i + Len(abstract))

\* \b(1\.\s*)?introduction\b (IGNORECASE) matches at offset i
IntroductionAt(t, i) ==
    LET word(j) == LitAt(t, j, introduction, TRUE)
                   /\ WordBoundary(t, j + Len(introduction))
    IN  /\ i <= Len(t)
        /\ WordBoundary(t, i)
        /\ \/ /\ LitAt(t, i, <<"1", ".">>, FALSE)
              /\ word(RunEnd(t, i + 2, SpaceChars))
           \/ word(i)

\* re.search: the start of the leftmost match, 0 when there is none
SearchAbstract(t)     == LeastOr0({i \in 1..Len(t) : AbstractAt(t, i)})
SearchIntroduction(t) == LeastOr0({i \in 1..Len(t) : IntroductionAt(t, i)})

\* line 31
MainSkip == 1000

\* the fallback keeping a text shorter than the skip whole
MainFallbackKeepShort(t) ==
    IF Len(t) < MainSkip THEN t ELSE SubSeq(t, MainSkip + 1, Len(t))

\* line 31: text[1000:]
MainFallback(t) == SubSeq(t, MainSkip + 1, Len(t))

find_main_start(t) ==
    LET a == SearchAbstract(t)
        b == SearchIntroduction(t)
    IN  IF a # 0 THEN SubSeq(t, a, Len(t))
        ELSE IF b # 0 THEN SubSeq(t, b, Len(t))
        ELSE MainFallback(t)

\* texts around the skip: a head followed by filler up to a given length
MaxShort == 20
MaxOver  == 2
FillChars == <<" ", "x", ".">>
Filled(head, n) ==
    [k \in 1..Max(n, Len(head)) |->
        IF k <= Len(head) THEN head[k] ELSE FillChars[(k % 3) + 1]]
MainHeads ==
    { <<>>,
      <<"t","i","t","l","e">>,
      <<"A","b","s","t","r","a","c","t">>,
      <<"a","b","s","t","r","a","c","t","s">>,
      <<"x"," ","a","b","s","t","r","a","c","t",".">>,
      <<"1","."," ","I","n","t","r","o","d","u","c","t","i","o","n"," ">>,
      <<"x","1","."," ","i","n","t","r","o","d","u","c","t","i","o","n"," ">>,
      <<"r","e","i","n","t","r","o","d","u","c","t","i","o","n"," ">> }
MainLengths == (0..MaxShort) \cup ((MainSkip - MaxOver)..(MainSkip + MaxOver))
MainTexts == {Filled(h, n) : h \in MainHeads, n \in MainLengths}

IdleMain == ms_text = <<>> /\ ms_pc = "idle" /\ ms_result = <<>>

\* a call of find_main_start
MsCall ==
    /\ ms_pc = "call"
    /\ ms_result' = find_main_start(ms_text)
    /\ ms_pc' = "done"
    /\ UNCHANGED ms_text
    /\ UNCHANGED notMain

-----------------------------------------------------------------------------
(* Edits.  A filter is modelled by the edit it makes on its input t: a     *)
(* sequence holding, for every character of the result in order, the       *)
(* offset in t of the character it is, or the code of an inserted          *)
(* character.  Render gives the resulting text; RenderMarks carries a      *)
(* per-character annotation through the same edit.                         *)

NewlineIns == -1    \* an inserted "\n" (the joins of 61, 72, 124; line 127)
SpaceIns   == -2    \* an inserted " " (line 128)

Offsets(t) == [k \in 1..Len(t) |-> k]

Render(t, idx) ==
    [k \in 1..Len(idx) |->
        IF idx[k] > 0 THEN t[idx[k]]
        ELSE IF idx[k] = NewlineIns THEN NL ELSE " "]

RenderMarks(m, idx) ==
    [k \in 1..Len(idx) |-> IF idx[k] > 0 THEN m[idx[k]] ELSE 0]

\* the edit idx followed by the edit F makes on the text idx gives
Then(t, idx, F(_)) ==
    LET nxt == F(Render(t, idx))
    IN  [k \in 1..Len(nxt) |-> IF nxt[k] > 0 THEN idx[nxt[k]] ELSE nxt[k]]

\* re.sub on a text of length n: scanning from offset i, the leftmost match
\* (ends[j] > j: a match from j up to ends[j], exclusive) is replaced by repl
\* and the scan resumes at its end.  No pattern here matches the empty string.
RECURSIVE ReSubFrom(_, _, _, _)
ReSubFrom(n, ends, repl, i) ==
    LET j == LeastOr({k \in i..n : ends[k] > k}, n + 1)
    IN  [k \in 1..(j - i) |-> i + k - 1]
        \o (IF j > n THEN <<>> ELSE repl \o ReSubFrom(n, ends, repl, ends[j]))

\* re.sub(pattern, repl, t), End(t, i) being the end of pattern's match at i
\* (0: no match at i)
ReSub(t, End(_, _), repl) ==
    ReSubFrom(Len(t), [i \in 1..Len(t) |-> End(t, i)], repl, 1)

\* exactly n digits at offset i
DigitsAt(t, i, n) == i + n - 1 <= Len(t) /\ \A k \in i..(i + n - 1) : t[k] \in Digit

WordChars == Lower \cup Upper \cup Digit \cup {"_"}

-----------------------------------------------------------------------------
(* clean_text, line 93: the trailing sections                              *)

TrailingWords ==
    { <<"r","e","f","e","r","e","n","c","e","s">>,
      <<"a","c","k","n","o","w","l","e","d","g","e","m","e","n","t","s">>,
      <<"a","p","p","e","n","d","i","x">> }

\* (?i)\b(references|acknowledgements|appendix)\b.* with DOTALL
TrailingEnd(t, i) ==
    IF /\ WordBoundary(t, i)
       /\ \E w \in TrailingWords :
             LitAt(t, i, w, TRUE) /\ WordBoundary(t, i + Len(w))
    THEN Len(t) + 1 ELSE 0

TruncateIdx(t) == ReSub(t, TrailingEnd, <<>>)

-----------------------------------------------------------------------------
(* clean_text, lines 96-98: citations                                      *)

etal      == <<" ","e","t"," ","a","l",".">>
etalComma == <<" ","e","t"," ","a","l",".",","," ">>

\* [\w\-]+ et al\., \d{4} at offset i: its end, 0 if it does not match
CiteCoreEnd(t, i) ==
    LET e == RunEnd(t, i, WordChars \cup {"-"})
    IN  IF e > i /\ LitAt(t, e, etalComma, FALSE) /\ DigitsAt(t, e + 9, 4)
        THEN e + 13 ELSE 0

\* (;\s*[\w\-]+ et al\., \d{4})* from offset i: its end
RECURSIVE CiteMoreEnd(_, _)
CiteMoreEnd(t, i) ==
    IF i <= Len(t) /\ t[i] = ";"
    THEN LET c == CiteCoreEnd(t, RunEnd(t, i + 1, SpaceChars))
         IN  IF c # 0 THEN CiteMoreEnd(t, c) ELSE i
    ELSE i

\* line 96: \[\s*[\w\-]+ et al\., \d{4}(;\s*[\w\-]+ et al\., \d{4})*\s*\]
BracketCiteEnd(t, i) ==
    IF t[i] # "[" THEN 0
    ELSE LET c == CiteCoreEnd(t, RunEnd(t, i + 1, SpaceChars))
         IN  IF c = 0 THEN 0
             ELSE LET s == RunEnd(t, CiteMoreEnd(t, c), SpaceChars)
                  IN  IF s <= Len(t) /\ t[s] = "]" THEN s + 1 ELSE 0

\* line 97: \b\w+ et al\.,? \d{4}\b
BareCiteEnd(t, i) ==
    LET e == RunEnd(t, i, WordChars)
        y == IF LitAt(t, e + 7, <<",">>, FALSE) THEN e + 8 ELSE e + 7
    IN  IF /\ WordBoundary(t, i)
           /\ e > i
           /\ LitAt(t, e, etal, FALSE)
           /\ LitAt(t, y, <<" ">>, FALSE)
           /\ DigitsAt(t, y + 1, 4)
           /\ WordBoundary(t, y + 5)
        THEN y + 5 ELSE 0

\* line 98: \b[A-Z][a-z]+ et al\.\b
LoneCiteEnd(t, i) ==
    LET e == RunEnd(t, i + 1, Lower)
    IN  IF /\ WordBoundary(t, i)
           /\ t[i] \in Upper
           /\ e > i + 1
           /\ LitAt(t, e, etal, FALSE)
           /\ WordBoundary(t, e + 7)
        THEN e + 7 ELSE 0

BracketCiteIdx(t) == ReSub(t, BracketCiteEnd, <<>>)
BareCiteIdx(t)    == ReSub(t, BareCiteEnd, <<>>)
LoneCiteIdx(t)    == ReSub(t, LoneCiteEnd, <<>>)

-----------------------------------------------------------------------------
(* clean_text, lines 101-105: URLs, DOIs, e-mail addresses, captions       *)

\* line 101: http\S+|www\.\S+|doi:\S+
UrlEnd(t, i) ==
    LET after(lit) == IF LitAt(t, i, lit, FALSE)
                         /\ TokenEnd(t, i + Len(lit)) > i + Len(lit)
                      THEN TokenEnd(t, i + Len(lit)) ELSE 0
    IN  IF after(<<"h","t","t","p">>) # 0 THEN after(<<"h","t","t","p">>)
        ELSE IF after(<<"w","w","w",".">>) # 0 THEN after(<<"w","w","w",".">>)
        ELSE after(<<"d","o","i",":">>)

\* line 102: \S+@\S+ : from i to the end of the token, when an "@" of the
\* token has a character of the token from i on before it and one after it
EmailEnd(t, i) ==
    LET e == TokenEnd(t, i)
    IN  IF \E j \in (i + 1)..(e - 2) : t[j] = "@" THEN e ELSE 0

CaptionWords ==
    { <<"T","a","b","l","e">>, <<"F","i","g","u","r","e">>, <<"F","i","g",".">> }

\* line 105: (Table|Figure|Fig\.)\s*\d+.* : through the end of the line on
\* which the number ends
CaptionEnd(t, i) ==
    LET ends == { LineEnd(t, RunEnd(t, RunEnd(t, i + Len(w), SpaceChars), Digit)) :
                    w \in { v \in CaptionWords :
                              /\ LitAt(t, i, v, FALSE)
                              /\ RunEnd(t, RunEnd(t, i + Len(v), SpaceChars), Digit)
                                     > RunEnd(t, i + Len(v), SpaceChars) } }
    IN  LeastOr0(ends)

UrlIdx(t)     == ReSub(t, UrlEnd, <<>>)
EmailIdx(t)   == ReSub(t, EmailEnd, <<>>)
CaptionIdx(t) == ReSub(t, CaptionEnd, <<>>)

-----------------------------------------------------------------------------
(* The line filters as edits                                               *)

\* "\n".join of the lines numbered kept, the lines being text.split('\n')
SplitJoinIdx(t, kept) ==
    Join(PickLines(SplitBy(Offsets(t), t), kept), <<NewlineIns>>)

\* "\n".join of the lines numbered kept, the lines being text.splitlines()
SplitLinesJoinIdx(t, kept) ==
    Join(PickLines(SplitLinesBy(Offsets(t), t), kept), <<NewlineIns>>)

NumericIdx(t) == SplitJoinIdx(t, NumericKept(SplitNL(t)))

remove_numeric_blocks(t) == Render(t, NumericIdx(t))

\* line 69: a run of 3 or more whitespace characters, or 2 or more tabs
IsTabular(line) ==
    \/ \E k \in 1..(Len(line) - 2) :
          IsSpace(line[k]) /\ IsSpace(line[k + 1]) /\ IsSpace(line[k + 2])
    \/ Cardinality({k \in 1..Len(line) : line[k] = TAB}) >= 2

\* the for loop of lines 67-71 from line i+1 on: the numbers of the lines kept
RECURSIVE TabularLoop(_, _, _)
TabularLoop(lines, i, kept) ==
    IF i >= Len(lines) THEN kept
    ELSE TabularLoop(lines, i + 1,
             IF IsTabular(lines[i + 1]) THEN kept ELSE Append(kept, i + 1))

TabularIdx(t) == SplitJoinIdx(t, TabularLoop(SplitNL(t), 0, <<>>))

remove_tabular_blocks(t) == Render(t, TabularIdx(t))

DedupIdx(t) == SplitLinesJoinIdx(t, DedupKept(SplitLines(t)))

\* lines 117-124
DedupLines(t) == Render(t, DedupIdx(t))

-----------------------------------------------------------------------------
(* remove_headers_footers (75-86)                                          *)

PageWord == <<"P","a","g","e"," ">>
OfWord   == <<"o","f"," ">>

\* line 76: \bPage \d+(\s+of \d+)?\b (IGNORECASE).  The digits are taken
\* greedily; the group is taken when it matches up to a word boundary,
\* otherwise the match ends after the page number if a boundary is there.
PageEnd(t, i) ==
    LET d  == RunEnd(t, i + 5, Digit)
        s  == RunEnd(t, d, SpaceChars)
        d2 == RunEnd(t, s + 3, Digit)
    IN  IF ~(WordBoundary(t, i) /\ LitAt(t, i, PageWord, TRUE) /\ d > i + 5)
        THEN 0
        ELSE IF /\ s > d /\ LitAt(t, s, OfWord, TRUE) /\ d2 > s + 3
                /\ WordBoundary(t, d2)
        THEN d2
        ELSE IF WordBoundary(t, d) THEN d ELSE 0

NihNotice == <<"N","I","H","-","P","A"," ","A","u","t","h","o","r"," ",
               "M","a","n","u","s","c","r","i","p","t">>
\* line 77
NihEnd(t, i) == IF LitAt(t, i, NihNotice, FALSE) THEN i + Len(NihNotice) ELSE 0

\* <literal>.*?\n : from the literal through the first newline after it;
\* no match when no newline follows
LitLineEnd(t, i, lit, ic) ==
    LET e == LineEnd(t, i + Len(lit))
    IN  IF LitAt(t, i, lit, ic) /\ e <= Len(t) THEN e + 1 ELSE 0

PmcNotice  == <<"A","u","t","h","o","r"," ","m","a","n","u","s","c","r","i","p","t",";"," ",
                "a","v","a","i","l","a","b","l","e"," ","i","n"," ","P","M","C">>
JournalJADD == <<"J"," ","A","u","t","i","s","m"," ","D","e","v"," ",
                 "D","i","s","o","r","d">>
BioRxiv    == <<"b","i","o","R","x","i","v">>
MedRxiv    == <<"m","e","d","R","x","i","v">>
SciReports == <<"S","c","i","e","n","t","i","f","i","c"," ","R","e","p","o","r","t","s">>
Copyright  == <<"C","o","p","y","r","i","g","h","t">>
AllRights  == <<"A","l","l"," ","r","i","g","h","t","s"," ",
                "r","e","s","e","r","v","e","d">>

PmcEnd(t, i)        == LitLineEnd(t, i, PmcNotice, FALSE)      \* line 78
JournalEnd(t, i)    == LitLineEnd(t, i, JournalJADD, FALSE)    \* line 79
BioRxivEnd(t, i)    == LitLineEnd(t, i, BioRxiv, TRUE)         \* line 80
MedRxivEnd(t, i)    == LitLineEnd(t, i, MedRxiv, TRUE)         \* line 81
SciReportsEnd(t, i) == LitLineEnd(t, i, SciReports, TRUE)      \* line 82
CopyrightEnd(t, i)  == LitLineEnd(t, i, Copyright, TRUE)       \* line 83
AllRightsEnd(t, i)  == LitLineEnd(t, i, AllRights, TRUE)       \* line 84

\* [\s\.\-<em-dash>_] of line 85
RuleChars == SpaceChars \cup {".", "-", EmDash, "_"}

\* line 85: ^[\s\.\-<em-dash>_]{3,}$ (MULTILINE): from a line start, the
\* longest run of at least 3 rule characters that ends at a line end
RuleEnd(t, i) ==
    LET e == RunEnd(t, i, RuleChars)
        stops == {j \in (i + 3)..e : j > Len(t) \/ t[j] = NL}
    IN  IF (i = 1 \/ t[i - 1] = NL) /\ stops # {}
        THEN CHOOSE j \in stops : \A k \in stops : j >= k
        ELSE 0

PageIdx(t)       == ReSub(t, PageEnd, <<>>)
NihIdx(t)        == ReSub(t, NihEnd, <<>>)
PmcIdx(t)        == ReSub(t, PmcEnd, <<>>)
JournalIdx(t)    == ReSub(t, JournalEnd, <<>>)
BioRxivIdx(t)    == ReSub(t, BioRxivEnd, <<>>)
MedRxivIdx(t)    == ReSub(t, MedRxivEnd, <<>>)
SciReportsIdx(t) == ReSub(t, SciReportsEnd, <<>>)
CopyrightIdx(t)  == ReSub(t, CopyrightEnd, <<>>)
AllRightsIdx(t)  == ReSub(t, AllRightsEnd, <<>>)
RuleIdx(t)       == ReSub(t, RuleEnd, <<>>)

\* lines 76-85 in order
HeadersIdx(t) ==
    LET e1  == PageIdx(t)
        e2  == Then(t, e1, NihIdx)
        e3  == Then(t, e2, PmcIdx)
        e4  == Then(t, e3, JournalIdx)
        e5  == Then(t, e4, BioRxivIdx)
        e6  == Then(t, e5, MedRxivIdx)
        e7  == Then(t, e6, SciReportsIdx)
        e8  == Then(t, e7, CopyrightIdx)
        e9  == Then(t, e8, AllRightsIdx)
    IN  Then(t, e9, RuleIdx)

remove_headers_footers(t) == Render(t, HeadersIdx(t))

-----------------------------------------------------------------------------
(* clean_text, lines 127-130: whitespace                                   *)

\* line 127: \n{3,}
NewlinesEnd(t, i) ==
    LET e == RunEnd(t, i, {NL}) IN IF e >= i + 3 THEN e ELSE 0

\* [ ]{2,}: runs of spaces only
SpacesEndNoTab(t, i) ==
    LET e == RunEnd(t, i, {" "}) IN IF e >= i + 2 THEN e ELSE 0

\* line 128: [ \t]{2,}
SpacesEnd(t, i) ==
    LET e == RunEnd(t, i, {" ", TAB}) IN IF e >= i + 2 THEN e ELSE 0

NewlinesIdx(t) == ReSub(t, NewlinesEnd, <<NewlineIns, NewlineIns>>)
SpacesIdx(t)   == ReSub(t, SpacesEnd, <<SpaceIns>>)

\* line 130: text.strip()
StripIdx(t) ==
    LET nb == {k \in 1..Len(t) : ~IsSpace(t[k])}
    IN  IF nb = {} THEN <<>>
        ELSE SubSeq(Offsets(t), CHOOSE k \in nb : \A j \in nb : k <= j,
                                CHOOSE k \in nb : \A j \in nb : k >= j)

\* line 91 as an edit: the suffix find_main_start returns
MainStartIdx(t) ==
    SubSeq(Offsets(t), Len(t) - Len(find_main_start(t)) + 1, Len(t))

-----------------------------------------------------------------------------
(* extract_clean_text_from_pdf (134-143), ocr_pdf (34-43) and clean_text   *)
(* (89-130), statement by statement                                        *)

Zeros(n) == [k \in 1..n |-> 0]

DigitSeq == <<"0","1","2","3","4","5","6","7","8","9">>

\* str(n) for n >= 0
RECURSIVE Decimal(_)
Decimal(n) ==
    IF n < 10 THEN <<DigitSeq[n + 1]>>
    ELSE Decimal(n \div 10) \o <<DigitSeq[(n % 10) + 1]>>

MarkerHead == <<"-","-","-"," ","P","a","g","e"," ">>
MarkerTail == <<" ","-","-","-">>

\* line 42: f"\n\n--- Page {i+1} ---\n\n", n being i+1
PageMarker(n) == <<NL, NL>> \o MarkerHead \o Decimal(n) \o MarkerTail \o <<NL, NL>>

\* the page loop appending only the pages that have text
AppendChunkNonEmpty(chunks, page_text) ==
    IF Len(page_text) = 0 THEN chunks ELSE Append(chunks, page_text)

\* line 140
AppendChunk(chunks, page_text) == Append(chunks, page_text)

IdleClean ==
    /\ pages = <<>> /\ path = "none" /\ text_chunks = <<>> /\ pg = 0
    /\ raw = <<>> /\ text = <<>> /\ mark = <<>> /\ pc = "idle"
    /\ pass = 0 /\ first = <<>>

\* lines 138-140: one page of the loop of extract_clean_text_from_pdf
ExtractPage ==
    /\ pc = "extract"
    /\ pg < Len(pages)
    /\ text_chunks' = AppendChunk(text_chunks, pages[pg + 1])
    /\ pg' = pg + 1
    /\ UNCHANGED <<pages, path, raw, text, mark, pc, pass, first>>
    /\ UNCHANGED notClean

\* lines 142-143: the join, and the call of clean_text
ExtractJoin ==
    /\ pc = "extract"
    /\ pg = Len(pages)
    /\ raw' = Join(text_chunks, <<NL>>)
    /\ text' = raw'
    /\ mark' = Zeros(Len(raw'))
    /\ pc' = "find_main_start"
    /\ UNCHANGED <<pages, path, text_chunks, pg, pass, first>>
    /\ UNCHANGED notClean

\* lines 40-42: one page of the loop of ocr_pdf (raw is full_text)
OcrPage ==
    /\ pc = "ocr"
    /\ pg < Len(pages)
    /\ raw' = raw \o PageMarker(pg + 1) \o pages[pg + 1]
    /\ mark' = mark \o [k \in 1..Len(PageMarker(pg + 1)) |-> pg + 1]
                    \o Zeros(Len(pages[pg + 1]))
    /\ pg' = pg + 1
    /\ UNCHANGED <<pages, path, text_chunks, text, pc, pass, first>>
    /\ UNCHANGED notClean

\* line 43 and process_ocr_pdf line 162: the call of clean_text
OcrReturn ==
    /\ pc = "ocr"
    /\ pg = Len(pages)
    /\ text' = raw
    /\ pc' = "find_main_start"
    /\ UNCHANGED <<pages, path, text_chunks, pg, raw, mark, pass, first>>
    /\ UNCHANGED notClean

\* one statement of clean_text: text = <the edit idx applied to text>
Statement(from, to, idx) ==
    /\ pc = from
    /\ text' = Render(text, idx)
    /\ mark' = RenderMarks(mark, idx)
    /\ pc' = to
    /\ UNCHANGED <<pages, path, text_chunks, pg, raw, pass, first>>
    /\ UNCHANGED notClean

FindMainStart  == Statement("find_main_start", "truncate", MainStartIdx(text))    \* 91
Truncate       == Statement("truncate", "cite_bracket", TruncateIdx(text))        \* 93
CiteBracket    == Statement("cite_bracket", "cite_bare", BracketCiteIdx(text))    \* 96
CiteBare       == Statement("cite_bare", "cite_lone", BareCiteIdx(text))          \* 97
CiteLone       == Statement("cite_lone", "url", LoneCiteIdx(text))                \* 98
RemoveUrls     == Statement("url", "email", UrlIdx(text))                         \* 101
RemoveEmails   == Statement("email", "caption", EmailIdx(text))                   \* 102
RemoveCaptions == Statement("caption", "numeric", CaptionIdx(text))               \* 105
RemoveNumeric  == Statement("numeric", "tabular", NumericIdx(text))               \* 108
RemoveTabular  == Statement("tabular", "headers", TabularIdx(text))               \* 111
RemoveHeaders  == Statement("headers", "dedup", HeadersIdx(text))                 \* 114
Dedup          == Statement("dedup", "newlines", DedupIdx(text))                  \* 117-124
Newlines       == Statement("newlines", "spaces", NewlinesIdx(text))              \* 127
Spaces         == Statement("spaces", "strip", SpacesIdx(text))                   \* 128
StripReturn    == Statement("strip", "done", StripIdx(text))                      \* 130

\* the filters are run again on their own result
Rerun ==
    /\ pc = "done"
    /\ pass = 1
    /\ first' = text
    /\ pass' = 2
    /\ pc' = "cite_bracket"
    /\ UNCHANGED <<pages, path, text_chunks, pg, raw, text, mark>>
    /\ UNCHANGED notClean

\* documents: whitespace-heavy one-page documents, and up to MaxPages pages
\* drawn from sample pages
MaxPages == 2
MaxBody  == 5
PageSamples ==
    { <<>>,
      <<"A","b","s","t","r","a","c","t",NL,"w","e"," ","s","e","e">>,
      <<"-","-","-"," ","P","a","g","e"," ","P","a","g","e"," ","1"," ","2",
        " ","-","-","-">>,
      <<"P","a","g","e"," ","3"," ","o","f"," ","9",NL,
        "T","a","b","l","e"," ","2"," ","x",NL,"1",".","5"," ","2","%",NL,"e","n","d">>,
      <<"i","n"," ","[","L","i"," ","e","t"," ","a","l",".",","," ",
        "2","0","2","0","]"," "," ","a","@","b",NL,NL,NL,NL,
        "R","e","f","e","r","e","n","c","e","s",NL,"[","1","]">>,
      <<"a"," "," ","b",TAB,TAB,"c",NL,"a"," ","b"," ","c",NL>>,
      <<"a","b","s","t","r","a","c","t","@","b"," ",TAB,"a"," "," ","a",NL>> }
WsTexts ==
    {<<"a","b","s","t","r","a","c","t",NL>> \o b :
        b \in SeqsUpTo({"a", " ", TAB, NL}, MaxBody)}
CleanDocs == {<<p>> : p \in WsTexts} \cup SeqsUpTo(PageSamples, MaxPages)

\* texts given to the filters alone
MaxFilterTokens == 4
FilterTokens ==
    { <<"a">>, <<" ">>, <<NL>>, <<"5">>, <<"-">>, <<"P","a","g","e"," ","1">> }
RECURSIVE Concat(_)
Concat(parts) == IF Len(parts) = 0 THEN <<>> ELSE parts[1] \o Concat(Tail(parts))
FilterTexts == {Concat(ts) : ts \in SeqsUpTo(FilterTokens, MaxFilterTokens)}

-----------------------------------------------------------------------------
(* The __main__ batch loop (172-180)                                       *)

\* line 8: the default of check_pages
DefaultCheckPages == 3

\* directory entries.  opens: fitz.open succeeds on the file; ocr: the OCR
\* of process_ocr_pdf (convert_from_path, image_to_string) succeeds on it
FileSamples ==
    { [name |-> "t", pdf |-> TRUE,  opens |-> TRUE,  ocr |-> TRUE,
       doc |-> <<<<"a">>, <<>>>>],
      [name |-> "i", pdf |-> TRUE,  opens |-> TRUE,  ocr |-> TRUE,
       doc |-> <<<<" ">>, <<>>>>],
      [name |-> "u", pdf |-> TRUE,  opens |-> FALSE, ocr |-> TRUE,
       doc |-> <<>>],
      [name |-> "f", pdf |-> TRUE,  opens |-> TRUE,  ocr |-> FALSE,
       doc |-> <<<<>>, <<NL>>, <<>>, <<"a">>>>],
      [name |-> "n", pdf |-> FALSE, opens |-> FALSE, ocr |-> FALSE,
       doc |-> <<>>] }
MaxFiles == 3
\* a directory listing has no name twice
Listings ==
    {l \in SeqsUpTo(FileSamples, MaxFiles) :
        \A j, k \in 1..Len(l) : j # k => l[j].name # l[k].name}

IdleBatch ==
    /\ listing = <<>> /\ b_i = 0 /\ b_pc = "idle" /\ b_image = FALSE
    /\ written = {}

\* lines 174-176: the next directory entry; one without the .pdf suffix is skipped
BNextFile ==
    /\ b_pc = "next"
    /\ b_i < Len(listing)
    /\ IF listing[b_i + 1].pdf
       THEN b_pc' = "classify" /\ UNCHANGED b_i
       ELSE b_i' = b_i + 1 /\ UNCHANGED b_pc
    /\ UNCHANGED <<listing, b_image, written>>
    /\ UNCHANGED notBatch

\* line 174: the listing is exhausted
BFinish ==
    /\ b_pc = "next"
    /\ b_i = Len(listing)
    /\ b_pc' = "done"
    /\ UNCHANGED <<listing, b_i, b_image, written>>
    /\ UNCHANGED notBatch

\* line 177: is_image_based_pdf; fitz.open (line 9) raises on a file it
\* cannot open, and nothing catches it
BClassify ==
    /\ b_pc = "classify"
    /\ LET f == listing[b_i + 1]
       IN  IF ~f.opens
           THEN b_pc' = "crashed" /\ UNCHANGED b_image
           ELSE /\ b_image' = is_image_based_pdf(f.doc, DefaultCheckPages)
                /\ b_pc' = IF b_image' THEN "ocr" ELSE "text"
    /\ UNCHANGED <<listing, b_i, written>>
    /\ UNCHANGED notBatch

\* line 178: process_ocr_pdf; a failing OCR raises (line 161), uncaught
BProcessOcr ==
    /\ b_pc = "ocr"
    /\ LET f == listing[b_i + 1]
       IN  IF ~f.ocr
           THEN b_pc' = "crashed" /\ UNCHANGED <<b_i, written>>
           ELSE /\ written' = written \cup {f.name}
                /\ b_i' = b_i + 1
                /\ b_pc' = "next"
    /\ UNCHANGED <<listing, b_image>>
    /\ UNCHANGED notBatch

\* line 180: process_pdf
BProcessPdf ==
    /\ b_pc = "text"
    /\ written' = written \cup {listing[b_i + 1].name}
    /\ b_i' = b_i + 1
    /\ b_pc' = "next"
    /\ UNCHANGED <<listing, b_image>>
    /\ UNCHANGED notBatch

-----------------------------------------------------------------------------
(* Specifications: one per function under study, the others idle           *)

InitNumeric ==
    /\ nb_text \in NumericTexts
    /\ nb_lines = <<>> /\ nb_i = 0 /\ nb_cleaned = <<>> /\ numeric_run = 0
    /\ nb_kept = <<>> /\ nb_pc = "split" /\ nb_result = <<>>
    /\ IdleDedup /\ IdleClass /\ IdleMain /\ IdleClean /\ IdleBatch
NextNumeric ==
    \/ NbSplit
    \/ NbLine
    \/ NbReturn
SpecNumeric == InitNumeric /\ [][NextNumeric]_vars

InitDedup ==
    /\ dd_text \in DedupTexts
    /\ dd_lines = <<>> /\ dd_i = 0 /\ deduped = <<>> /\ prev = <<>>
    /\ dd_kept = <<>> /\ dd_pc = "split" /\ dd_result = <<>>
    /\ IdleNumeric /\ IdleClass /\ IdleMain /\ IdleClean /\ IdleBatch
NextDedup ==
    \/ DdSplit
    \/ DdLine
    \/ DdJoin
SpecDedup == InitDedup /\ [][NextDedup]_vars

InitClass ==
    /\ cl_doc \in ClassDocs
    /\ check_pages \in 0..MaxCheckPages
    /\ cl_i = 0 /\ cl_seen = {} /\ cl_pc = "loop" /\ cl_result = FALSE
    /\ IdleNumeric /\ IdleDedup /\ IdleMain /\ IdleClean /\ IdleBatch
NextClass ==
    \/ ClPage
    \/ ClReturnTrue
SpecClass == InitClass /\ [][NextClass]_vars

InitMain ==
    /\ ms_text \in MainTexts
    /\ ms_pc = "call" /\ ms_result = <<>>
    /\ IdleNumeric /\ IdleDedup /\ IdleClass /\ IdleClean /\ IdleBatch
NextMain ==
    \/ MsCall
SpecMain == InitMain /\ [][NextMain]_vars

InitClean ==
    /\ pages \in CleanDocs
    /\ path \in {"text", "ocr"}
    /\ pc = IF path = "text" THEN "extract" ELSE "ocr"
    /\ text_chunks = <<>> /\ pg = 0 /\ raw = <<>> /\ text = <<>>
    /\ mark = <<>> /\ pass = 0 /\ first = <<>>
    /\ IdleNumeric /\ IdleDedup /\ IdleClass /\ IdleMain /\ IdleBatch
NextClean ==
    \/ ExtractPage
    \/ ExtractJoin
    \/ OcrPage
    \/ OcrReturn
    \/ FindMainStart
    \/ Truncate
    \/ CiteBracket
    \/ CiteBare
    \/ CiteLone
    \/ RemoveUrls
    \/ RemoveEmails
    \/ RemoveCaptions
    \/ RemoveNumeric
    \/ RemoveTabular
    \/ RemoveHeaders
    \/ Dedup
    \/ Newlines
    \/ Spaces
    \/ StripReturn
SpecClean == InitClean /\ [][NextClean]_vars

InitFilters ==
    /\ text \in FilterTexts
    /\ raw = text
    /\ mark = Zeros(Len(text))
    /\ pc = "cite_bracket" /\ pass = 1 /\ first = <<>>
    /\ pages = <<>> /\ path = "none" /\ text_chunks = <<>> /\ pg = 0
    /\ IdleNumeric /\ IdleDedup /\ IdleClass /\ IdleMain /\ IdleBatch
NextFilters ==
    \/ CiteBracket
    \/ CiteBare
    \/ CiteLone
    \/ RemoveUrls
    \/ RemoveEmails
    \/ RemoveCaptions
    \/ RemoveNumeric
    \/ RemoveTabular
    \/ RemoveHeaders
    \/ Dedup
    \/ Newlines
    \/ Spaces
    \/ StripReturn
    \/ Rerun
SpecFilters == InitFilters /\ [][NextFilters]_vars

InitBatch ==
    /\ listing \in Listings
    /\ b_i = 0 /\ b_pc = "next" /\ b_image = FALSE /\ written = {}
    /\ IdleNumeric /\ IdleDedup /\ IdleClass /\ IdleMain /\ IdleClean
NextBatch ==
    \/ BNextFile
    \/ BFinish
    \/ BClassify
    \/ BProcessOcr
    \/ BProcessPdf
SpecBatch == InitBatch /\ [][NextBatch]_vars

-----------------------------------------------------------------------------
(* Properties                                                              *)

Range(f) == {f[k] : k \in DOMAIN f}

Increasing(f) == \A j, k \in 1..Len(f) : j < k => f[j] < f[k]

\* the numbers of the numeric-like lines
NumericLines(lines) == {k \in 1..Len(lines) : IsNumericLike(lines[k])}

\* the first line of the run of numeric-like lines that line k belongs to
RunFirst(lines, k) ==
    CHOOSE j \in 1..k :
        /\ \A m \in j..k : m \in NumericLines(lines)
        /\ j = 1 \/ (j - 1) \notin NumericLines(lines)

\* the last line of that run
RunLast(lines, k) ==
    CHOOSE j \in k..Len(lines) :
        /\ \A m \in k..j : m \in NumericLines(lines)
        /\ j = Len(lines) \/ (j + 1) \notin NumericLines(lines)

\* the length of the maximal run of numeric-like lines that line k belongs to
RunLength(lines, k) == RunLast(lines, k) - RunFirst(lines, k) + 1

\* C1: when the batch has ended, every PDF of the directory that is itself
\* processable (it opens, and its OCR succeeds if it is image-based) has its
\* <basename>_cleaned.txt written, wherever a failing document stands in the
\* enumeration order.
C1_BatchIsolatesFailures ==
    b_pc \in {"done", "crashed"} =>
        \A k \in 1..Len(listing) :
            LET f == listing[k]
            IN  ( /\ f.pdf
                  /\ f.opens
                  /\ is_image_based_pdf(f.doc, DefaultCheckPages) => f.ocr )
                => f.name \in written

\* C2: remove_numeric_blocks keeps every line of a maximal run of exactly 1
\* or exactly 2 numeric-like lines, the kept lines staying in their order.
C2_ShortRunsRetained ==
    nb_pc = "done" =>
        /\ \A k \in NumericLines(nb_lines) :
              RunLength(nb_lines, k) \in {1, 2} => k \in Range(nb_kept)
        /\ Increasing(nb_kept)
        /\ nb_result = Join(PickLines(nb_lines, nb_kept), <<NL>>)

\* C3: remove_numeric_blocks removes every line of a maximal run of 3 or more
\* numeric-like lines, the first two included; the output is the kept lines
\* in their order; and during the scan the counter is the length of the run
\* of numeric-like lines ending at the line just read (0 after a line that is
\* not numeric-like), so that a later run is counted from its own start.
C3_LongRunsRemoved ==
    /\ nb_pc = "done" =>
          /\ \A k \in NumericLines(nb_lines) :
                RunLength(nb_lines, k) >= 3 => k \notin Range(nb_kept)
          /\ Increasing(nb_kept)
          /\ nb_cleaned = PickLines(nb_lines, nb_kept)
          /\ nb_result = Join(PickLines(nb_lines, nb_kept), <<NL>>)
    /\ (nb_pc = "loop" /\ nb_i >= 1) =>
          numeric_run = IF nb_i \in NumericLines(nb_lines)
                        THEN nb_i - RunFirst(nb_lines, nb_i) + 1
                        ELSE 0

\* a finished call on a text with a run of 3 or more numeric-like lines and,
\* after a line that is not numeric-like, a later run of 1 or 2
C3_Witness ==
    /\ nb_pc = "done"
    /\ \E k, m \in NumericLines(nb_lines) :
          /\ RunLength(nb_lines, k) >= 3
          /\ RunLength(nb_lines, m) <= 2
          /\ m > k
    /\ Len(nb_kept) >= 1

\* a page text that is empty or whitespace only
Blank(page_text) == \A k \in 1..Len(page_text) : IsSpace(page_text[k])

\* C4: is_image_based_pdf reads only pages 1..min(check_pages, page count),
\* and returns true iff every one of those pages is empty or whitespace only.
C4_ClassifiesByFirstPages ==
    cl_pc = "done" =>
        LET inspected == 1..Min(check_pages, Len(cl_doc))
        IN  /\ cl_seen \subseteq inspected
            /\ cl_result <=> \A p \in inspected : Blank(cl_doc[p])

\* a document classified image-based although a page after the check_pages-th
\* has text
C4_Witness ==
    /\ cl_pc = "done"
    /\ cl_result
    /\ check_pages >= 1
    /\ \E p \in (check_pages + 1)..Len(cl_doc) : ~Blank(cl_doc[p])

\* the text has neither the word abstract nor the word introduction
NoKeyword(t) == SearchAbstract(t) = 0 /\ SearchIntroduction(t) = 0

\* text[1000:] of a text of at least 1000 characters
SkippedThousand(t, r) ==
    /\ Len(r) = Len(t) - 1000
    /\ \A k \in 1..Len(r) : r[k] = t[1000 + k]

\* C5 as stated: without either keyword find_main_start returns the text from
\* offset 1000 on when it has at least 1000 characters, and the whole text
\* when it is shorter.
C5_ShortTextReturnedWhole ==
    (ms_pc = "done" /\ NoKeyword(ms_text)) =>
        IF Len(ms_text) >= 1000 THEN SkippedThousand(ms_text, ms_result)
        ELSE ms_result = ms_text

\* C5 amended: without either keyword find_main_start returns the text from
\* offset 1000 on when it has at least 1000 characters, and the empty string
\* when it is shorter.
C5_ShortTextReturnedEmpty ==
    (ms_pc = "done" /\ NoKeyword(ms_text)) =>
        IF Len(ms_text) >= 1000 THEN SkippedThousand(ms_text, ms_result)
        ELSE Len(ms_result) = 0

\* a call on a non-empty text shorter than 1000 characters without keyword
C5_Witness ==
    /\ ms_pc = "done"
    /\ NoKeyword(ms_text)
    /\ Len(ms_text) > 0
    /\ Len(ms_text) < 1000
    /\ Len(ms_result) = 0

\* C6: the filters of lines 95-130 run on their own result give that result.
C6_FiltersIdempotent ==
    (pc = "done" /\ pass = 2) => text = first

HorizontalSpace == {" ", TAB}

\* C7: the string clean_text returns has no leading or trailing whitespace,
\* no 3 consecutive newlines and no 2 consecutive horizontal-whitespace
\* characters.
C7_CleanedTextWhitespace ==
    (pc = "done" /\ pass = 0) =>
        /\ Len(text) > 0 => ~IsSpace(text[1]) /\ ~IsSpace(text[Len(text)])
        /\ \A k \in 1..(Len(text) - 2) :
              ~(text[k] = NL /\ text[k + 1] = NL /\ text[k + 2] = NL)
        /\ \A k \in 1..(Len(text) - 1) :
              ~(text[k] \in HorizontalSpace /\ text[k + 1] \in HorizontalSpace)

\* clean_text has returned a text with a space in it, from a raw text that
\* had, between two letters of a line, a run of 2 horizontal-whitespace
\* characters, whitespace at its end, and at its start an e-mail address
\* (abstract@b) followed by whitespace, which is at the start of the text
\* once line 102 has removed the address
C7_Witness ==
    /\ pc = "done"
    /\ pass = 0
    /\ SearchAbstract(raw) = 1
    /\ Len(raw) > 11 /\ raw[9] = "@" /\ IsSpace(raw[11])
    /\ \E k \in 1..Len(text) : text[k] = " "
    /\ \E k \in 2..(Len(raw) - 2) :
          /\ raw[k] \in HorizontalSpace /\ raw[k + 1] \in HorizontalSpace
          /\ raw[k - 1] = "a" /\ raw[k + 2] = "a"
    /\ IsSpace(raw[Len(raw)])

\* the number of characters before page k in the pages joined by sep
RECURSIVE PageOffset(_, _, _)
PageOffset(ps, k, sep) ==
    IF k = 1 THEN 0
    ELSE PageOffset(ps, k - 1, sep) + Len(ps[k - 1]) + Len(sep)

\* r is the page texts ps in order, every one present, with sep between each
\* two consecutive ones
PagesSeparatedBy(r, ps, sep) ==
    /\ Len(r) = IF Len(ps) = 0 THEN 0
                ELSE PageOffset(ps, Len(ps), sep) + Len(ps[Len(ps)])
    /\ \A k \in 1..Len(ps) :
          LET o == PageOffset(ps, k, sep)
          IN  /\ SubSeq(r, o + 1, o + Len(ps[k])) = ps[k]
              /\ k < Len(ps) =>
                    SubSeq(r, o + Len(ps[k]) + 1, o + Len(ps[k]) + Len(sep)) = sep

\* C8 as stated: the text extract_clean_text_from_pdf hands to clean_text is
\* the page texts in page order, none skipped, with a blank line between each
\* two consecutive ones.
C8_PagesJoinedByBlankLine ==
    (path = "text" /\ pc # "extract") => PagesSeparatedBy(raw, pages, <<NL, NL>>)

\* C8 amended: the text extract_clean_text_from_pdf hands to clean_text is
\* the page texts in page order, none skipped (an empty page contributes its
\* empty text and its separator), with a single newline between each two
\* consecutive ones.
C8_PagesJoinedByNewline ==
    (path = "text" /\ pc # "extract") => PagesSeparatedBy(raw, pages, <<NL>>)

\* the raw text of a document of 2 or more pages, one of them empty
C8_Witness ==
    /\ path = "text"
    /\ pc = "find_main_start"
    /\ Len(pages) >= 2
    /\ \E k \in 1..Len(pages) : Len(pages[k]) = 0
    /\ Len(raw) > 0

\* line k has the trimmed content of the line before it
SameAsPrevious(lines, k) == k > 1 /\ Strip(lines[k]) = Strip(lines[k - 1])

\* C9 as stated: the duplicate-line loop removes a line iff the line before
\* it in the input has the same trimmed content; the other lines are kept in
\* their order.
C9_RemovedIffSameAsPrevious ==
    dd_pc = "done" =>
        /\ \A k \in 1..Len(dd_lines) :
              k \notin Range(dd_kept) <=> SameAsPrevious(dd_lines, k)
        /\ Increasing(dd_kept)
        /\ deduped = PickLines(dd_lines, dd_kept)
        /\ dd_result = Join(deduped, <<NL>>)

\* C9 amended: the duplicate-line loop removes a line iff the line before it
\* in the input has the same trimmed content, or it is the first line and its
\* trimmed content is empty; the other lines are kept in their order.
C9_RemovedIffSameAsPreviousOrLeadingBlank ==
    dd_pc = "done" =>
        /\ \A k \in 1..Len(dd_lines) :
              k \notin Range(dd_kept) <=>
                  \/ SameAsPrevious(dd_lines, k)
                  \/ k = 1 /\ Len(Strip(dd_lines[1])) = 0
        /\ Increasing(dd_kept)
        /\ deduped = PickLines(dd_lines, dd_kept)
        /\ dd_result = Join(deduped, <<NL>>)

\* a finished loop over lines with two identical adjacent lines, the second
\* removed, and two identical lines that are not adjacent, both kept
C9_Witness ==
    /\ dd_pc = "done"
    /\ \E k \in 2..Len(dd_lines) :
          /\ dd_lines[k] = dd_lines[k - 1]
          /\ k \notin Range(dd_kept)
          /\ (k - 1) \in Range(dd_kept)
    /\ \E j, m \in Range(dd_kept) : m > j + 1 /\ dd_lines[j] = dd_lines[m]

\* --- Page <n> --- , alone on a line
IsMarkerLine(line) ==
    LET d == RunEnd(line, Len(MarkerHead) + 1, Digit)
    IN  /\ LitAt(line, 1, MarkerHead, FALSE)
        /\ d > Len(MarkerHead) + 1
        /\ SubSeq(line, d, Len(line)) = MarkerTail

\* the lines of text, each as the offsets of its characters
LineOffsets(t) == SplitBy(Offsets(t), t)

\* C10: the text clean_text returns for a raw text of ocr_pdf has
\* no line that is a complete --- Page <n> --- marker.
C10_NoMarkerLineInOutput ==
    (pc = "done" /\ path = "ocr") =>
        \A k \in 1..Len(LineOffsets(text)) :
            ~IsMarkerLine(Render(text, LineOffsets(text)[k]))

====
